---- MODULE Spec2Model ----
(***************************************************************************)
(* A model of the Google Ads MCP server (src/server.py and its copy in     *)
(* src/standalone_server.py): the search tool's query builder, the         *)
(* response normalizer, the lazily constructed process-wide client and the *)
(* tool calls that use them.                                               *)
(*                                                                         *)
(* Python strings are TLA+ strings; TLC evaluates Len, SubSeq and \o on    *)
(* them.  Python objects are records tagged by a "kind" field.             *)
(***************************************************************************)
EXTENDS Integers, Sequences, FiniteSets, TLC

(***************************************************************************)
(* Characters and the character classes of Python's re module, over the    *)
(* ASCII characters the modelled inputs use.                               *)
(***************************************************************************)
LowerChars == "abcdefghijklmnopqrstuvwxyz"
UpperChars == "ABCDEFGHIJKLMNOPQRSTUVWXYZ"
DigitChars == "0123456789"

CharAt(s, i) == SubSeq(s, i, i)

CharsOf(s) == {CharAt(s, i) : i \in 1..Len(s)}

LowerSet == CharsOf(LowerChars)
DigitSet == CharsOf(DigitChars)
WordSet == CharsOf(LowerChars) \cup CharsOf(UpperChars) \cup CharsOf(DigitChars) \cup {"_"}

\* \s of re
IsSpace(c) == c \in {" ", "\t", "\n"}

\* . of re without re.DOTALL: the characters of s from a to b hold no newline
Dots(s, a, b) == \A i \in a..b : CharAt(s, i) # "\n"

\* $ of re without re.MULTILINE at position p: the end, or before a newline that ends s
AtEnd(s, p) == p = Len(s) + 1 \/ (p = Len(s) /\ CharAt(s, p) = "\n")

\* \d of re
IsDigit(c) == c \in DigitSet

\* \w of re
IsWord(c) == c \in WordSet

\* the case folding of re.IGNORECASE on one character
UpperChar(c) ==
  IF c \in LowerSet
    THEN CharAt(UpperChars, CHOOSE i \in 1..Len(LowerChars) : CharAt(LowerChars, i) = c)
    ELSE c

RECURSIVE Upper(_)
Upper(s) == IF s = "" THEN "" ELSE UpperChar(CharAt(s, 1)) \o Upper(SubSeq(s, 2, Len(s)))

Min(S) == CHOOSE x \in S : \A y \in S : x <= y
Max(S) == CHOOSE x \in S : \A y \in S : x >= y

\* the length of the longest run of characters of a class that starts at position i
RECURSIVE WsRun(_, _)
WsRun(s, i) == IF i >= 1 /\ i <= Len(s) /\ IsSpace(CharAt(s, i)) THEN 1 + WsRun(s, i + 1) ELSE 0

RECURSIVE WordRun(_, _)
WordRun(s, i) == IF i >= 1 /\ i <= Len(s) /\ IsWord(CharAt(s, i)) THEN 1 + WordRun(s, i + 1) ELSE 0

RECURSIVE DigitRun(_, _)
DigitRun(s, i) == IF i >= 1 /\ i <= Len(s) /\ IsDigit(CharAt(s, i)) THEN 1 + DigitRun(s, i + 1) ELSE 0

\* the keyword kw (upper case) stands at position i of the case-folded text u
At(u, i, kw) == i >= 1 /\ i + Len(kw) - 1 <= Len(u) /\ SubSeq(u, i, i + Len(kw) - 1) = kw

\* str.strip()
Strip(s) ==
  IF \A i \in 1..Len(s) : IsSpace(CharAt(s, i)) THEN ""
  ELSE LET a == Min({i \in 1..Len(s) : ~IsSpace(CharAt(s, i))})
           b == Max({i \in 1..Len(s) : ~IsSpace(CharAt(s, i))})
       IN SubSeq(s, a, b)

\* str.split(sep) for a one-character separator: a sequence of strings
RECURSIVE Split(_, _)
Split(s, sep) ==
  IF \A i \in 1..Len(s) : CharAt(s, i) # sep THEN <<s>>
  ELSE LET p == Min({i \in 1..Len(s) : CharAt(s, i) = sep})
       IN <<SubSeq(s, 1, p - 1)>> \o Split(SubSeq(s, p + 1, Len(s)), sep)

\* sep.join(parts)
RECURSIVE Join(_, _)
Join(parts, sep) ==
  IF Len(parts) = 0 THEN ""
  ELSE IF Len(parts) = 1 THEN parts[1]
  ELSE parts[1] \o sep \o Join(Tail(parts), sep)

\* int(digits) for a string of ASCII digits
DigitVal(c) == (CHOOSE i \in 1..10 : CharAt(DigitChars, i) = c) - 1

RECURSIVE ParseInt(_)
ParseInt(s) ==
  IF s = "" THEN 0
  ELSE 10 * ParseInt(SubSeq(s, 1, Len(s) - 1)) + DigitVal(CharAt(s, Len(s)))

\* str(n) of a non-negative int, as an f-string renders it
IntStr(n) == ToString(n)

(***************************************************************************)
(* The four regular expressions of search, each re.search(..., query,      *)
(* re.IGNORECASE).  A match is found by the engine's own order: the        *)
(* leftmost start, a greedy \s+ before the group (longest first, shorter   *)
(* on backtracking), a lazy (.+?) (shortest first).  A \s+ that is         *)
(* followed by a keyword or by \w or \d can only be the whole run of       *)
(* whitespace, since the next character must not be whitespace.            *)
(* The result is [ok |-> FALSE] or [ok |-> TRUE, g1 |-> ..., ...].         *)
(***************************************************************************)
NoMatch == [ok |-> FALSE]

\* what follows the group of SELECT\s+(.+?)\s+FROM\s+(\w+) when the group ends before p
SelectTail(q, u, p) ==
  LET w1 == WsRun(q, p)
      r  == p + w1 + 4
      w2 == WsRun(q, r)
  IN  /\ w1 >= 1
      /\ At(u, p + w1, "FROM")
      /\ w2 >= 1
      /\ WordRun(q, r + w2) >= 1

\* re.search(r'SELECT\s+(.+?)\s+FROM\s+(\w+)', query, re.IGNORECASE)
SelectMatch(q) ==
  LET u == Upper(q)
      n == Len(q)
      Ls(i, k) == {l \in 1..n : /\ i + 6 + k + l - 1 <= n
                                  /\ Dots(q, i + 6 + k, i + 6 + k + l - 1)
                                  /\ SelectTail(q, u, i + 6 + k + l)}
      Ks(i) == {k \in 1..WsRun(q, i + 6) : Ls(i, k) # {}}
      Is == {i \in 1..n : At(u, i, "SELECT") /\ Ks(i) # {}}
  IN  IF Is = {} THEN NoMatch
      ELSE LET i == Min(Is)
               k == Max(Ks(i))
               l == Min(Ls(i, k))
               j == i + 6 + k
               p == j + l
               r == p + WsRun(q, p) + 4
               g == r + WsRun(q, r)
           IN [ok |-> TRUE, g1 |-> SubSeq(q, j, p - 1), g2 |-> SubSeq(q, g, g + WordRun(q, g) - 1)]

\* (?:\s+LIMIT|$) at position p
LimitOrEnd(q, u, p) ==
  \/ (WsRun(q, p) >= 1 /\ At(u, p + WsRun(q, p), "LIMIT"))
  \/ AtEnd(q, p)

\* \s+ORDER\s+BY at position p
OrderByAt(q, u, p) ==
  LET w1 == WsRun(q, p)
      w2 == WsRun(q, p + w1 + 5)
  IN  w1 >= 1 /\ At(u, p + w1, "ORDER") /\ w2 >= 1 /\ At(u, p + w1 + 5 + w2, "BY")

\* (?:\s+ORDER\s+BY|\s+LIMIT|$) at position p
WhereTail(q, u, p) == OrderByAt(q, u, p) \/ LimitOrEnd(q, u, p)

\* re.search(r'WHERE\s+(.+?)(?:\s+ORDER\s+BY|\s+LIMIT|$)', query, re.IGNORECASE)
WhereMatch(q) ==
  LET u == Upper(q)
      n == Len(q)
      Ls(i, k) == {l \in 1..n : /\ i + 5 + k + l - 1 <= n
                                  /\ Dots(q, i + 5 + k, i + 5 + k + l - 1)
                                  /\ WhereTail(q, u, i + 5 + k + l)}
      Ks(i) == {k \in 1..WsRun(q, i + 5) : Ls(i, k) # {}}
      Is == {i \in 1..n : At(u, i, "WHERE") /\ Ks(i) # {}}
  IN  IF Is = {} THEN NoMatch
      ELSE LET i == Min(Is)
               k == Max(Ks(i))
               l == Min(Ls(i, k))
               j == i + 5 + k
           IN [ok |-> TRUE, g1 |-> SubSeq(q, j, j + l - 1)]

\* re.search(r'ORDER\s+BY\s+(.+?)(?:\s+LIMIT|$)', query, re.IGNORECASE)
OrderMatch(q) ==
  LET u == Upper(q)
      n == Len(q)
      By(i) == i + 5 + WsRun(q, i + 5)
      Ls(i, k) == {l \in 1..n : /\ By(i) + 2 + k + l - 1 <= n
                                  /\ Dots(q, By(i) + 2 + k, By(i) + 2 + k + l - 1)
                                  /\ LimitOrEnd(q, u, By(i) + 2 + k + l)}
      Ks(i) == {k \in 1..WsRun(q, By(i) + 2) : Ls(i, k) # {}}
      Is == {i \in 1..n : /\ At(u, i, "ORDER")
                          /\ WsRun(q, i + 5) >= 1
                          /\ At(u, By(i), "BY")
                          /\ Ks(i) # {}}
  IN  IF Is = {} THEN NoMatch
      ELSE LET i == Min(Is)
               k == Max(Ks(i))
               l == Min(Ls(i, k))
               j == By(i) + 2 + k
           IN [ok |-> TRUE, g1 |-> SubSeq(q, j, j + l - 1)]

\* re.search(r'LIMIT\s+(\d+)', query, re.IGNORECASE)
LimitMatch(q) ==
  LET u == Upper(q)
      n == Len(q)
      D(i) == i + 5 + WsRun(q, i + 5)
      Is == {i \in 1..n : At(u, i, "LIMIT") /\ WsRun(q, i + 5) >= 1 /\ DigitRun(q, D(i)) >= 1}
  IN  IF Is = {} THEN NoMatch
      ELSE LET i == Min(Is)
           IN [ok |-> TRUE, g1 |-> SubSeq(q, D(i), D(i) + DigitRun(q, D(i)) - 1)]

(***************************************************************************)
(* Python objects.  A backend row and its nested messages are "message"    *)
(* objects (they carry _pb and named attributes); a proto.Enum member is   *)
(* an IntEnum, so it is an int as well; "text" is what str() renders for   *)
(* the object.                                                             *)
(***************************************************************************)
None == [kind |-> "none"]
PyStr(s) == [kind |-> "str", s |-> s]
PyInt(n) == [kind |-> "int", n |-> n]
PyBool(b) == [kind |-> "bool", b |-> b]
PyEnum(name, n, text) == [kind |-> "enum", name |-> name, n |-> n, text |-> text]
PyList(items, text) == [kind |-> "list", items |-> items, text |-> text]
PyTuple(items, text) == [kind |-> "tuple", items |-> items, text |-> text]
\* items of a dict: a sequence of <<key, value>> in insertion order
PyDict(items, text) == [kind |-> "dict", items |-> items, text |-> text]
PyMessage(attrs, text) == [kind |-> "message", attrs |-> attrs, text |-> text]
PyRepeated(items, text) == [kind |-> "repeated", items |-> items, text |-> text]
PyOther(text) == [kind |-> "other", text |-> text]
\* an object whose __str__ raises
PyBroken(msg) == [kind |-> "broken", msg |-> msg]
\* a raised exception, as the outcome of an evaluation
Raise(type, msg) == [kind |-> "raise", type |-> type, msg |-> msg]

Raised(o) == o.kind = "raise"

\* bool(o), as `if o:` and `not o` take it
Truthy(o) ==
  CASE o.kind = "none" -> FALSE
    [] o.kind = "str" -> o.s # ""
    [] o.kind = "int" -> o.n # 0
    [] o.kind = "bool" -> o.b
    [] o.kind \in {"list", "tuple", "dict", "repeated"} -> Len(o.items) > 0
    [] OTHER -> TRUE

\* isinstance(obj, (str, int, float, bool)); a proto.Enum member is an int
IsInstancePrimitive(o) == o.kind \in {"str", "int", "float", "bool", "enum"}

\* isinstance(obj, proto.Enum)
IsInstanceEnum(o) == o.kind = "enum"

\* hasattr(obj, '_pb'): proto-plus messages and repeated containers
HasPb(o) == o.kind \in {"message", "repeated"}

\* str(obj): a str object, or the exception raised
StrOf(o) ==
  CASE o.kind = "str" -> o
    [] o.kind = "int" -> PyStr(IntStr(o.n))
    [] o.kind = "none" -> PyStr("None")
    [] o.kind = "bool" -> PyStr(IF o.b THEN "True" ELSE "False")
    [] o.kind = "broken" -> Raise("RuntimeError", o.msg)
    [] OTHER -> PyStr(o.text)

\* the first exception among the outcomes rs, in evaluation order
AnyRaised(rs) == \E i \in 1..Len(rs) : Raised(rs[i])
FirstRaised(rs) == rs[Min({i \in 1..Len(rs) : Raised(rs[i])})]

\* _ensure_serializable(obj): the converted object, or the exception raised
RECURSIVE _ensure_serializable(_)
_ensure_serializable(obj) ==
  IF obj.kind = "none" \/ IsInstancePrimitive(obj) THEN obj
  ELSE IF IsInstanceEnum(obj) THEN PyStr(obj.name)
  ELSE IF HasPb(obj) THEN StrOf(obj)
  ELSE IF obj.kind = "dict" THEN
    LET vs == [i \in 1..Len(obj.items) |-> _ensure_serializable(obj.items[i][2])]
    IN  IF AnyRaised(vs) THEN FirstRaised(vs)
        ELSE PyDict([i \in 1..Len(vs) |-> <<obj.items[i][1], vs[i]>>], obj.text)
  ELSE IF obj.kind \in {"list", "tuple"} THEN
    LET vs == [i \in 1..Len(obj.items) |-> _ensure_serializable(obj.items[i])]
    IN  IF AnyRaised(vs) THEN FirstRaised(vs) ELSE PyList(vs, obj.text)
  ELSE StrOf(obj)

\* format_output_value(value)
format_output_value(value) ==
  LET r == _ensure_serializable(value)
  IN  IF Raised(r) THEN StrOf(value) ELSE r

\* getattr(obj, name): the attribute, or AttributeError
GetAttr(obj, name) ==
  IF obj.kind = "message" /\ name \in DOMAIN obj.attrs THEN obj.attrs[name]
  ELSE IF obj.kind = "enum" /\ name = "name" THEN PyStr(obj.name)
  ELSE IF obj.kind = "enum" /\ name = "value" THEN PyInt(obj.n)
  ELSE Raise("AttributeError", "Unknown field: " \o name)

\* get_nested_attr(obj, attr) of google.ads.googleads.util:
\* functools.reduce(getattr, [obj] + attr.split("."))
RECURSIVE ReduceGetAttr(_, _)
ReduceGetAttr(obj, names) ==
  IF Len(names) = 0 THEN obj
  ELSE LET o == GetAttr(obj, Head(names))
       IN  IF Raised(o) THEN o ELSE ReduceGetAttr(o, Tail(names))

get_nested_attr(row, attr) == ReduceGetAttr(row, Split(attr, "."))

\* whether json.dumps(obj) succeeds
RECURSIVE JsonDumps(_)
JsonDumps(obj) ==
  CASE obj.kind \in {"none", "str", "int", "float", "bool", "enum"} -> TRUE
    [] obj.kind \in {"list", "tuple"} -> \A i \in 1..Len(obj.items) : JsonDumps(obj.items[i])
    [] obj.kind = "dict" ->
         \A i \in 1..Len(obj.items) :
            /\ obj.items[i][1].kind \in {"none", "str", "int", "float", "bool", "enum"}
            /\ JsonDumps(obj.items[i][2])
    [] OTHER -> FALSE

\* result[key] = value on a dict kept as a sequence of <<key, value>>
DictSet(items, key, value) ==
  IF \E i \in 1..Len(items) : items[i][1] = key
    THEN [i \in 1..Len(items) |-> IF items[i][1] = key THEN <<key, value>> ELSE items[i]]
    ELSE Append(items, <<key, value>>)

\* a loop that drops a path whose resolution or conversion raises instead of recording it
RECURSIVE FormatFieldsSkipFailed(_, _, _)
FormatFieldsSkipFailed(row, attributes, n) ==
  IF n = 0 THEN <<>>
  ELSE LET attr == attributes[n]
           value == get_nested_attr(row, attr)
           out == IF Raised(value) THEN value ELSE format_output_value(value)
           before == FormatFieldsSkipFailed(row, attributes, n - 1)
       IN  IF Raised(out) THEN before ELSE DictSet(before, PyStr(attr), out)

\* the loop of format_output_row over attributes[1..n]: the result dict
RECURSIVE FormatFields(_, _, _)
FormatFields(row, attributes, n) ==
  IF n = 0 THEN <<>>
  ELSE LET attr == attributes[n]
           value == get_nested_attr(row, attr)
           out == IF Raised(value) THEN value ELSE format_output_value(value)
       IN  DictSet(FormatFields(row, attributes, n - 1), PyStr(attr),
                   IF Raised(out) THEN PyStr("Error: " \o out.msg) ELSE out)

\* a fallback keyed by the top-level segment of each path instead of the path
RECURSIVE FallbackFieldsTopKey(_, _, _)
FallbackFieldsTopKey(row, attributes, n) ==
  IF n = 0 THEN PyDict(<<>>, "")
  ELSE LET before == FallbackFieldsTopKey(row, attributes, n - 1)
           attr == attributes[n]
           top == GetAttr(row, Split(attr, ".")[1])
           text == StrOf(IF Raised(top) THEN PyStr("N/A") ELSE top)
       IN  IF Raised(before) THEN before
           ELSE IF Raised(text) THEN text
           ELSE PyDict(DictSet(before.items, PyStr(Split(attr, ".")[1]), text), "")

\* {attr: str(getattr(row, attr.split('.')[0], 'N/A')) for attr in attributes}, up to n:
\* the dict, or the exception that str or getattr raises
RECURSIVE FallbackFields(_, _, _)
FallbackFields(row, attributes, n) ==
  IF n = 0 THEN PyDict(<<>>, "")
  ELSE LET before == FallbackFields(row, attributes, n - 1)
           attr == attributes[n]
           top == GetAttr(row, Split(attr, ".")[1])
           text == StrOf(IF Raised(top) THEN PyStr("N/A") ELSE top)
       IN  IF Raised(before) THEN before
           ELSE IF Raised(text) THEN text
           ELSE PyDict(DictSet(before.items, PyStr(attr), text), "")

\* format_output_row(row, attributes): a dict, or the exception raised
format_output_row(row, attributes) ==
  LET result == PyDict(FormatFields(row, attributes, Len(attributes)), "")
  IN  IF JsonDumps(result) THEN result
      ELSE FallbackFields(row, attributes, Len(attributes))

(***************************************************************************)
(* The query builder of search.  The arguments and the local variables of  *)
(* one call are a record of Python objects.                                *)
(***************************************************************************)
NoArgs == [kind |-> "locals", customer_id |-> None, fields |-> None, resource |-> None, conditions |-> None,
           orderings |-> None, limit |-> None, query |-> None]

\* [x for x in strings] as a Python list of str
StrList(strings) == PyList([i \in 1..Len(strings) |-> PyStr(strings[i])], "")

\* the strings of a Python list of str
Strings(list) == [i \in 1..Len(list.items) |-> list.items[i].s]

\* [field.strip() for field in group.split(',')]
StripAll(parts) == [i \in 1..Len(parts) |-> Strip(parts[i])]

InvalidQuery == Raise("ValueError", "Invalid GAQL query: missing SELECT and FROM clauses")
MissingRequired ==
  Raise("ValueError", "Either 'query' parameter or both 'fields' and 'resource' parameters are required")

\* `if not conditions:` and its two siblings: whether the clause is parsed from the text
ParsesClause(explicit) == ~Truthy(explicit)

\* an `if query:` block that keeps the explicit arguments when SELECT ... FROM is not found
ParseQueryFallsBack(l) ==
  IF ~Truthy(l.query) THEN l
  ELSE LET q == Strip(l.query.s)
           select_match == SelectMatch(q)
           where_match == WhereMatch(q)
           order_match == OrderMatch(q)
           limit_match == LimitMatch(q)
       IN  IF ~select_match.ok THEN [l EXCEPT !.query = PyStr(q)]
           ELSE [kind |-> "locals", customer_id |-> l.customer_id,
                 fields |-> StrList(StripAll(Split(select_match.g1, ","))),
                 resource |-> PyStr(select_match.g2),
                 conditions |-> IF ParsesClause(l.conditions) /\ where_match.ok
                                  THEN StrList(<<where_match.g1>>) ELSE l.conditions,
                 orderings |-> IF ParsesClause(l.orderings) /\ order_match.ok
                                 THEN StrList(<<order_match.g1>>) ELSE l.orderings,
                 limit |-> IF ParsesClause(l.limit) /\ limit_match.ok
                             THEN PyInt(ParseInt(limit_match.g1)) ELSE l.limit,
                 query |-> PyStr(q)]

\* an `if query:` block that parses fields and resource only when the caller gave none
ParseQueryKeepsExplicit(l) ==
  IF ~Truthy(l.query) THEN l
  ELSE LET q == Strip(l.query.s)
           select_match == SelectMatch(q)
           where_match == WhereMatch(q)
           order_match == OrderMatch(q)
           limit_match == LimitMatch(q)
       IN  IF ~select_match.ok THEN InvalidQuery
           ELSE [kind |-> "locals", customer_id |-> l.customer_id,
                 fields |-> IF ParsesClause(l.fields)
                              THEN StrList(StripAll(Split(select_match.g1, ","))) ELSE l.fields,
                 resource |-> IF ParsesClause(l.resource)
                                THEN PyStr(select_match.g2) ELSE l.resource,
                 conditions |-> IF ParsesClause(l.conditions) /\ where_match.ok
                                  THEN StrList(<<where_match.g1>>) ELSE l.conditions,
                 orderings |-> IF ParsesClause(l.orderings) /\ order_match.ok
                                 THEN StrList(<<order_match.g1>>) ELSE l.orderings,
                 limit |-> IF ParsesClause(l.limit) /\ limit_match.ok
                             THEN PyInt(ParseInt(limit_match.g1)) ELSE l.limit,
                 query |-> PyStr(q)]

\* the `if query:` block of search: the locals after it, or the exception raised
ParseQuery(l) ==
  IF ~Truthy(l.query) THEN l
  ELSE LET q == Strip(l.query.s)
           select_match == SelectMatch(q)
           where_match == WhereMatch(q)
           order_match == OrderMatch(q)
           limit_match == LimitMatch(q)
       IN  IF ~select_match.ok THEN InvalidQuery
           ELSE [kind |-> "locals", customer_id |-> l.customer_id,
                 fields |-> StrList(StripAll(Split(select_match.g1, ","))),
                 resource |-> PyStr(select_match.g2),
                 conditions |-> IF ParsesClause(l.conditions) /\ where_match.ok
                                  THEN StrList(<<where_match.g1>>) ELSE l.conditions,
                 orderings |-> IF ParsesClause(l.orderings) /\ order_match.ok
                                 THEN StrList(<<order_match.g1>>) ELSE l.orderings,
                 limit |-> IF ParsesClause(l.limit) /\ limit_match.ok
                             THEN PyInt(ParseInt(limit_match.g1)) ELSE l.limit,
                 query |-> PyStr(q)]

\* a validation that fails only when fields and resource are both missing
MissingBoth(l) == ~Truthy(l.fields) /\ ~Truthy(l.resource)

\* `if not fields or not resource`
MissingFields(l) == ~Truthy(l.fields) \/ ~Truthy(l.resource)

\* `if limit:` before the LIMIT clause is appended
EmitsLimit(limit) == Truthy(limit)

\* "".join(query_parts)
BuildQuery(l) ==
  "SELECT " \o Join(Strings(l.fields), ",") \o " FROM " \o StrOf(l.resource).s
    \o (IF Truthy(l.conditions) THEN " WHERE " \o Join(Strings(l.conditions), " AND ") ELSE "")
    \o (IF Truthy(l.orderings) THEN " ORDER BY " \o Join(Strings(l.orderings), ",") ELSE "")
    \o (IF EmitsLimit(l.limit) THEN " LIMIT " \o IntStr(l.limit.n) ELSE "")

\* a slice that drops as many characters as the prefix has, whatever the string starts with
DropPrefixLength(s, prefix) == SubSeq(s, Len(prefix) + 1, Len(s))

\* str.removeprefix(prefix)
RemovePrefix(s, prefix) ==
  IF Len(s) >= Len(prefix) /\ SubSeq(s, 1, Len(prefix)) = prefix
    THEN SubSeq(s, Len(prefix) + 1, Len(s)) ELSE s

(***************************************************************************)
(* Bounds and the inputs the calls and the backend are drawn from.         *)
(***************************************************************************)
\* threads the hosting transport may run tool calls on
NumThreads == 2
\* batches one streamed search delivers at most
MaxBatches == 2

Threads == 1..NumThreads

\* nested messages of backend rows
CampaignA ==
  PyMessage([id |-> PyInt(7), name |-> PyStr("Brand"),
             status |-> PyEnum("ENABLED", 2, "CampaignStatus.ENABLED"),
             labels |-> PyRepeated(<<PyStr("l1"), PyStr("l2")>>, "['l1', 'l2']")],
            "id: 7 name: Brand status: ENABLED")
CampaignB ==
  PyMessage([id |-> PyInt(8), name |-> PyStr("Search"),
             status |-> PyEnum("PAUSED", 3, "CampaignStatus.PAUSED"),
             labels |-> PyRepeated(<<>>, "[]")],
            "id: 8 name: Search status: PAUSED")
MetricsA == PyMessage([clicks |-> PyInt(3)], "clicks: 3")

\* a row with every selected message
RowFull == PyMessage([campaign |-> CampaignA, metrics |-> MetricsA], "campaign { id: 7 } metrics { clicks: 3 }")
\* a row without metrics
RowNoMetrics == PyMessage([campaign |-> CampaignB], "campaign { id: 8 }")
\* a row of plain Python objects: a dict keyed by a tuple, nested lists, bytes, an object whose str raises
RowOdd ==
  PyMessage([campaign |-> CampaignA,
             extra |-> PyDict(<< <<PyTuple(<<PyInt(1)>>, "(1,)"), PyEnum("ENABLED", 2, "CampaignStatus.ENABLED")>> >>,
                              "{(1,): <CampaignStatus.ENABLED: 2>}"),
             tags |-> PyList(<<PyEnum("PAUSED", 3, "CampaignStatus.PAUSED"),
                               PyTuple(<<PyStr("x"), CampaignB>>, "('x', <Campaign>)")>>,
                             "[<CampaignStatus.PAUSED: 3>, ('x', <Campaign>)]"),
             blob |-> PyOther("b'x'"),
             bad |-> PyBroken("boom")],
            "campaign { id: 7 }")

Rows == {RowFull, RowNoMetrics, RowOdd}

Masks ==
  { <<"campaign.id", "campaign.status">>,
    <<"metrics.clicks", "campaign.name", "campaign.labels">>,
    <<"extra", "campaign.id", "metrics.clicks">>,
    <<"campaign.id", "tags", "campaign.id", "blob">>,
    <<"bad", "campaign", "campaign.status.name">>,
    <<"extra", "bad">> }

RowSeqs == { <<>>, <<RowFull, RowNoMetrics>>, <<RowOdd>>, <<RowNoMetrics, RowOdd, RowFull>> }

Batch(paths, results) == [paths |-> paths, results |-> results]
NoBatch == Batch(<<>>, <<>>)

\* the batches of the normalizer's specification: every mask with every row sequence
AllBatches == {Batch(m, r) : m \in Masks, r \in RowSeqs}

\* the one batch of the query builder's and of the concurrent specification
OneBatch == { Batch(<<"campaign.id", "campaign.status">>, <<RowFull>>) }

\* the resource names the customer listing returns
NameLists == { <<>>, <<"customers/123", "customers/456">>, <<"customers/9", "77", "customers/">> }

CustomerIds == {"1234567890"}

QueryTexts ==
  { "",
    "   ",
    "from campaign select a",
    "SELECT campaign.id FROM campaign",
    "select a, b from campaign where x > 1 order by a limit 5",
    " Select  a ,b  From ad_group  Where y = 2  Limit 07 ",
    "SELECT a FROM c ORDER BY b DESC" }

\* the arguments of the search calls of the query builder's specification
WideArgs ==
  { [kind |-> "locals", customer_id |-> PyStr(c), fields |-> f, resource |-> r,
     conditions |-> cs, orderings |-> os, limit |-> n, query |-> q] :
      c \in CustomerIds,
      f \in {None, StrList(<<>>), StrList(<<"campaign.id", "campaign.name">>)},
      r \in {None, PyStr(""), PyStr("campaign")},
      cs \in {None, StrList(<<>>), StrList(<<"x > 1", "y = 2">>)},
      os \in {None, StrList(<<>>), StrList(<<"a", "b DESC">>)},
      n \in {None, PyInt(0), PyInt(5)},
      q \in {None} \cup {PyStr(t) : t \in QueryTexts} }

\* the arguments of the search calls of the other specifications
FewArgs ==
  { [NoArgs EXCEPT !.customer_id = PyStr("123-456-7890"),
                   !.fields = StrList(<<"campaign.id", "campaign.status">>),
                   !.resource = PyStr("campaign")],
    [NoArgs EXCEPT !.customer_id = PyStr("1234567890"), !.query = PyStr("from campaign select a")] }

\* the parts free-text queries of the documented form are written from; the limit is its
\* digits and the integer they denote, no digits when the clause is absent
FormedParts ==
  { [fields |-> f, resource |-> "campaign", where |-> w, order |-> o, limit |-> n] :
      f \in {<<"a">>, <<"campaign.id", "campaign.name">>},
      w \in {"", "x > 1", "x = 1 and y = 2"},
      o \in {"", "a", "b DESC"},
      n \in {[digits |-> "", n |-> 0], [digits |-> "5", n |-> 5],
             [digits |-> "0", n |-> 0], [digits |-> "07", n |-> 7]} }

\* the layouts of a free-text query: on one line, in lower case with wide gaps, one
\* clause per line, one field per line
Layouts == {"line", "lower", "clauses", "fields"}

\* the text of the query of parts f in a layout
WriteQuery(f, layout) ==
  LET kw(word, lower) == IF layout = "lower" THEN lower ELSE word
      gap == IF layout = "lower" THEN "  " ELSE " "
      brk == IF layout \in {"clauses", "fields"} THEN "\n" ELSE gap
      list == IF layout = "fields" THEN "\n  " \o Join(f.fields, ",\n  ") \o "\n"
              ELSE IF layout = "lower" THEN gap \o Join(f.fields, ",") \o gap
              ELSE " " \o Join(f.fields, ", ") \o brk
  IN  kw("SELECT", "select") \o list \o kw("FROM", "from") \o gap \o f.resource
        \o (IF f.where = "" THEN "" ELSE brk \o kw("WHERE", "where") \o gap \o f.where)
        \o (IF f.order = "" THEN "" ELSE brk \o kw("ORDER BY", "order by") \o gap \o f.order)
        \o (IF f.limit.digits = "" THEN "" ELSE brk \o kw("LIMIT", "limit") \o gap \o f.limit.digits)

\* the free-text queries of the documented form, each with its parts
FormedQueries == { [text |-> WriteQuery(f, layout), parts |-> f] : f \in FormedParts, layout \in Layouts }

\* the search calls of the parser's specification: a free-text query and no other argument
FormedArgs ==
  { [NoArgs EXCEPT !.customer_id = PyStr("1234567890"), !.query = PyStr(f.text)] : f \in FormedQueries }

(***************************************************************************)
(* The server.  googleads_client is the module global _googleads_client    *)
(* (0 is None, n the n-th client constructed).  th[t] is the tool call     *)
(* thread t is running: its position, arguments, local variables, and      *)
(* what it has done so far in this call.                                   *)
(***************************************************************************)
VARIABLES googleads_client, constructed, th, http, ic, relay

vars == <<googleads_client, constructed, th, http, ic, relay>>

NoResult == [kind |-> "pending"]
Returned(value) == [kind |-> "return", value |-> value]

\* a thread that runs no call
Idle ==
  [pc |-> "idle", tool |-> "none", args |-> NoArgs, locals |-> NoArgs,
   client |-> 0, built |-> 0, sent |-> <<>>, delivered |-> <<>>,
   batch |-> NoBatch, row |-> 0, final_output |-> <<>>, result |-> NoResult]

\* process_mcp_request is not running
HttpIdle == [pc |-> "idle", request |-> None, outcome |-> None, response |-> None]

\* no call is being intercepted
IcIdle == [pc |-> "idle", kind |-> "none", metadata |-> None, new_metadata |-> None,
           passed |-> <<>>, outcome |-> None]

\* the relay before its first readline: no line read, `request` unbound, nothing written
RelayStart == [pc |-> "loop", lines |-> <<>>, request |-> [kind |-> "unbound"], out |-> <<>>]

Init ==
  /\ googleads_client = 0
  /\ constructed = 0
  /\ th = [t \in Threads |-> Idle]
  /\ http = HttpIdle
  /\ ic = IcIdle
  /\ relay = RelayStart

\* the call ends: it returns a value or raises
Finish(f, outcome) == [f EXCEPT !.pc = "done", !.result = outcome]

\* the transport calls search(**arguments)
CallSearch(t, a) ==
  /\ th[t].pc = "idle"
  /\ th' = [th EXCEPT ![t] = [Idle EXCEPT !.pc = "parse", !.tool = "search", !.args = a, !.locals = a]]
  /\ UNCHANGED <<googleads_client, constructed, http, ic, relay>>

\* search, the `if query:` block
SearchParse(t) ==
  /\ th[t].pc = "parse"
  /\ LET l == ParseQuery(th[t].locals)
     IN  th' = [th EXCEPT ![t] = IF Raised(l) THEN Finish(@, l)
                                 ELSE [@ EXCEPT !.pc = "validate", !.locals = l]]
  /\ UNCHANGED <<googleads_client, constructed, http, ic, relay>>

\* search, the validation of the required parameters
SearchValidate(t) ==
  /\ th[t].pc = "validate"
  /\ th' = [th EXCEPT ![t] = IF MissingFields(@.locals) THEN Finish(@, MissingRequired)
                             ELSE [@ EXCEPT !.pc = "service"]]
  /\ UNCHANGED <<googleads_client, constructed, http, ic, relay>>

\* the transport calls list_accessible_customers()
CallList(t) ==
  /\ th[t].pc = "idle"
  /\ th' = [th EXCEPT ![t] = [Idle EXCEPT !.pc = "service", !.tool = "list"]]
  /\ UNCHANGED <<googleads_client, constructed, http, ic, relay>>

\* get_googleads_service: `if _googleads_client is None`
ServiceCheck(t) ==
  /\ th[t].pc = "service"
  /\ th' = [th EXCEPT ![t].pc = IF googleads_client = 0 THEN "construct" ELSE "get_service"]
  /\ UNCHANGED <<googleads_client, constructed, http, ic, relay>>

\* get_googleads_service: _get_googleads_client() returns a new client
ServiceConstruct(t) ==
  /\ th[t].pc = "construct"
  /\ constructed' = constructed + 1
  /\ th' = [th EXCEPT ![t].pc = "assign", ![t].client = constructed + 1, ![t].built = @ + 1]
  /\ UNCHANGED <<googleads_client, http, ic, relay>>

\* get_googleads_service: _get_googleads_client() raises (no developer token, no credentials)
ServiceConstructFails(t) ==
  /\ th[t].pc = "construct"
  /\ th' = [th EXCEPT ![t] = Finish(@, Raise("ValueError", "GOOGLE_ADS_DEVELOPER_TOKEN environment variable not set."))]
  /\ UNCHANGED <<googleads_client, constructed, http, ic, relay>>

\* get_googleads_service: the store to the global
ServiceAssign(t) ==
  /\ th[t].pc = "assign"
  /\ googleads_client' = th[t].client
  /\ th' = [th EXCEPT ![t].pc = "get_service"]
  /\ UNCHANGED <<constructed, http, ic, relay>>

\* get_googleads_service: _googleads_client.get_service(...)
ServiceGet(t) ==
  /\ th[t].pc = "get_service"
  /\ th' = [th EXCEPT ![t].pc = IF @ = "get_service" /\ th[t].tool = "search" THEN "stream" ELSE "list"]
  /\ UNCHANGED <<googleads_client, constructed, http, ic, relay>>

\* search: the query is built and ga_service.search_stream is called
SearchStream(t) ==
  /\ th[t].pc = "stream"
  /\ LET query == BuildQuery(th[t].locals)
     IN  th' = [th EXCEPT ![t].pc = "fetch",
                          ![t].locals.query = PyStr(query),
                          ![t].sent = Append(@, <<th[t].locals.customer_id, PyStr(query)>>)]
  /\ UNCHANGED <<googleads_client, constructed, http, ic, relay>>

\* search: the stream yields its next batch
NextBatch(t, batches) ==
  /\ th[t].pc = "fetch"
  /\ Len(th[t].delivered) < MaxBatches
  /\ \E b \in batches :
       th' = [th EXCEPT ![t].pc = IF Len(b.results) = 0 THEN "fetch" ELSE "rows",
                        ![t].batch = b, ![t].row = 1,
                        ![t].delivered = Append(@, b)]
  /\ UNCHANGED <<googleads_client, constructed, http, ic, relay>>

\* a loop that formats every row with the field mask of the first batch of the stream
FormatRowFirstMask(t) ==
  /\ th[t].pc = "rows"
  /\ LET f == th[t]
         record == format_output_row(f.batch.results[f.row], f.delivered[1].paths)
     IN  th' = [th EXCEPT ![t] =
                  IF Raised(record) THEN Finish(@, record)
                  ELSE [@ EXCEPT !.final_output = Append(@, record),
                                 !.row = @ + 1,
                                 !.pc = IF f.row = Len(f.batch.results) THEN "fetch" ELSE "rows"]]
  /\ UNCHANGED <<googleads_client, constructed, http, ic, relay>>

\* search: one row of the batch is formatted and appended
FormatRow(t) ==
  /\ th[t].pc = "rows"
  /\ LET f == th[t]
         record == format_output_row(f.batch.results[f.row], f.batch.paths)
     IN  th' = [th EXCEPT ![t] =
                  IF Raised(record) THEN Finish(@, record)
                  ELSE [@ EXCEPT !.final_output = Append(@, record),
                                 !.row = @ + 1,
                                 !.pc = IF f.row = Len(f.batch.results) THEN "fetch" ELSE "rows"]]
  /\ UNCHANGED <<googleads_client, constructed, http, ic, relay>>

\* search: the stream is exhausted, final_output is returned
StreamEnds(t) ==
  /\ th[t].pc = "fetch"
  /\ th' = [th EXCEPT ![t] = Finish(@, Returned(@.final_output))]
  /\ UNCHANGED <<googleads_client, constructed, http, ic, relay>>

\* a failure of the stream after which the streamed search is issued again
StreamFailsRetries(t) ==
  /\ th[t].pc = "fetch"
  /\ th' = [th EXCEPT ![t].pc = "stream"]
  /\ UNCHANGED <<googleads_client, constructed, http, ic, relay>>

\* search: search_stream, or the iteration over it, raises a backend error
StreamFails(t) ==
  /\ th[t].pc = "fetch"
  /\ th' = [th EXCEPT ![t] = Finish(@, Raise("GoogleAdsException", "backend failure"))]
  /\ UNCHANGED <<googleads_client, constructed, http, ic, relay>>

\* [cust_rn.removeprefix("customers/") for cust_rn in resource_names]
StripCustomers(resource_names) ==
  [i \in 1..Len(resource_names) |-> RemovePrefix(resource_names[i], "customers/")]

\* list_accessible_customers: the backend call and the returned list
ListCustomers(t) ==
  /\ th[t].pc = "list"
  /\ \E names \in NameLists :
       th' = [th EXCEPT ![t] = Finish([@ EXCEPT !.delivered = <<names>>], Returned(StripCustomers(names)))]
  /\ UNCHANGED <<googleads_client, constructed, http, ic, relay>>

\* list_accessible_customers: the backend call raises
ListFails(t) ==
  /\ th[t].pc = "list"
  /\ th' = [th EXCEPT ![t] = Finish(@, Raise("GoogleAdsException", "backend failure"))]
  /\ UNCHANGED <<googleads_client, constructed, http, ic, relay>>

\* the caller takes the outcome; the thread is free for the next call
Return(t) ==
  /\ th[t].pc = "done"
  /\ th' = [th EXCEPT ![t] = Idle]
  /\ UNCHANGED <<googleads_client, constructed, http, ic, relay>>

\* every step of a call in progress on thread t, up to its end
Run(t, batches) ==
  \/ SearchParse(t)
  \/ SearchValidate(t)
  \/ ServiceCheck(t)
  \/ ServiceConstruct(t)
  \/ ServiceConstructFails(t)
  \/ ServiceAssign(t)
  \/ ServiceGet(t)
  \/ SearchStream(t)
  \/ NextBatch(t, batches)
  \/ FormatRow(t)
  \/ StreamEnds(t)
  \/ StreamFails(t)
  \/ ListCustomers(t)
  \/ ListFails(t)

\* every step of a call in progress on thread t
Step(t, batches) == Run(t, batches) \/ Return(t)

(***************************************************************************)
(* process_mcp_request of the HTTP server.  http is the running request:   *)
(* its position, the request, the outcome of the tool it called (`result`  *)
(* or the exception `e`) and what it returned to its caller, or the        *)
(* exception that left it.  The tool runs on thread 1.                     *)
(***************************************************************************)
\* a member a JSON object does not have
Absent == [kind |-> "absent"]

\* the "params" object of a request
ParamsObject(name, arguments) == [kind |-> "object", name |-> name, arguments |-> arguments]

\* dict.get(key) and dict.get(key, {}) on a member: None or {} when it is absent
Get(member) == IF member = Absent THEN None ELSE member
GetOrEmpty(member) == IF member = Absent THEN PyDict(<<>>, "{}") ELSE member

\* the values of "arguments": absent, null, a mapping with a key search does not take,
\* the keyword arguments of a search
ArgumentValues == {Absent, None, PyDict(<< <<PyStr("foo"), PyInt(1)>> >>, "{'foo': 1}")} \cup FewArgs

Requests ==
  { [method |-> m, params |-> Absent] :
      m \in {PyStr("tools/list"), PyStr("initialize"), PyStr("resources/list"), Absent} }
  \cup { [method |-> PyStr("tools/call"), params |-> p] : p \in {Absent, None, PyList(<<>>, "[]")} }
  \cup { [method |-> PyStr("tools/call"), params |-> ParamsObject(n, g)] :
           n \in {Absent, PyStr("nope"), PyStr("list_accessible_customers"), PyStr("search")},
           g \in ArgumentValues }

\* what process_mcp_request returns
ToolsList == [kind |-> "tools"]
InitializeResult == [kind |-> "initialize"]
ErrorObject(msg) == [kind |-> "error", error |-> msg, isError |-> TRUE]
ContentError(msg) == [kind |-> "content", text |-> msg, isError |-> TRUE]
Content(value) == [kind |-> "content", value |-> value, isError |-> FALSE]

\* params.get(key) on the value of request.get("params", {}): the member, or AttributeError
ParamsGet(params, key) ==
  IF params.kind = "object" THEN Get(params[key])
  ELSE IF params.kind = "dict" THEN None
  ELSE Raise("AttributeError", "object has no attribute 'get'")

\* the binding of search(**arguments): the keyword arguments, or TypeError
Bind(arguments) ==
  CASE arguments.kind = "locals" -> arguments
    [] arguments.kind = "dict" /\ Len(arguments.items) = 0 ->
         Raise("TypeError", "search() missing 1 required positional argument: 'customer_id'")
    [] arguments.kind = "dict" ->
         Raise("TypeError", "search() got an unexpected keyword argument 'foo'")
    [] OTHER -> Raise("TypeError", "search() argument after ** must be a mapping")

\* request.get("method"), params.get("name"), params.get("arguments", {}) of a request
MethodOf(r) == Get(r.method)
ToolName(r) == ParamsGet(GetOrEmpty(r.params), "name")
Arguments(r) == IF r.params.kind = "object" THEN GetOrEmpty(r.params.arguments) ELSE PyDict(<<>>, "{}")

\* process_mcp_request ends: it returns a response, or an exception leaves it
HttpFinish(r, outcome, response) ==
  http' = [pc |-> "done", request |-> r, outcome |-> outcome, response |-> response]

\* tools/list and initialize
HttpStatic(r) ==
  /\ http.pc = "idle"
  /\ MethodOf(r) \in {PyStr("tools/list"), PyStr("initialize")}
  /\ HttpFinish(r, None, IF MethodOf(r) = PyStr("tools/list") THEN ToolsList ELSE InitializeResult)
  /\ UNCHANGED <<googleads_client, constructed, th, ic, relay>>

\* the final else: a method that is none of the three
HttpUnknownMethod(r) ==
  /\ http.pc = "idle"
  /\ MethodOf(r) \notin {PyStr("tools/list"), PyStr("tools/call"), PyStr("initialize")}
  /\ HttpFinish(r, None, ErrorObject("Unknown method: " \o StrOf(MethodOf(r)).s))
  /\ UNCHANGED <<googleads_client, constructed, th, ic, relay>>

\* tools/call: params.get("name") raises, before the try
HttpParamsFail(r) ==
  /\ http.pc = "idle"
  /\ MethodOf(r) = PyStr("tools/call")
  /\ Raised(ToolName(r))
  /\ HttpFinish(r, None, ToolName(r))
  /\ UNCHANGED <<googleads_client, constructed, th, ic, relay>>

\* tools/call: the tool is neither list_accessible_customers nor search
HttpUnknownTool(r) ==
  /\ http.pc = "idle"
  /\ MethodOf(r) = PyStr("tools/call")
  /\ ~Raised(ToolName(r))
  /\ ToolName(r) \notin {PyStr("list_accessible_customers"), PyStr("search")}
  /\ HttpFinish(r, None, ErrorObject("Tool '" \o StrOf(ToolName(r)).s \o "' not found"))
  /\ UNCHANGED <<googleads_client, constructed, th, ic, relay>>

\* tools/call of search: tool_func.fn(**arguments) cannot bind the arguments
HttpBindFails(r) ==
  /\ http.pc = "idle"
  /\ MethodOf(r) = PyStr("tools/call")
  /\ ToolName(r) = PyStr("search")
  /\ Raised(Bind(Arguments(r)))
  /\ HttpFinish(r, Bind(Arguments(r)), ContentError("Error calling tool: " \o Bind(Arguments(r)).msg))
  /\ UNCHANGED <<googleads_client, constructed, th, ic, relay>>

\* tools/call of search: tool_func.fn(**arguments) enters search
HttpCallSearch(r) ==
  /\ http.pc = "idle" /\ th[1].pc = "idle"
  /\ MethodOf(r) = PyStr("tools/call")
  /\ ToolName(r) = PyStr("search")
  /\ ~Raised(Bind(Arguments(r)))
  /\ http' = [http EXCEPT !.pc = "tool", !.request = r]
  /\ th' = [th EXCEPT ![1] = [Idle EXCEPT !.pc = "parse", !.tool = "search",
                                          !.args = Bind(Arguments(r)), !.locals = Bind(Arguments(r))]]
  /\ UNCHANGED <<googleads_client, constructed, ic, relay>>

\* tools/call of list_accessible_customers: tool_func.fn()
HttpCallList(r) ==
  /\ http.pc = "idle" /\ th[1].pc = "idle"
  /\ MethodOf(r) = PyStr("tools/call")
  /\ ToolName(r) = PyStr("list_accessible_customers")
  /\ http' = [http EXCEPT !.pc = "tool", !.request = r]
  /\ th' = [th EXCEPT ![1] = [Idle EXCEPT !.pc = "service", !.tool = "list"]]
  /\ UNCHANGED <<googleads_client, constructed, ic, relay>>

\* whether json.dumps(result, indent=2) succeeds on what a tool returned
\* (list_accessible_customers returns a list of str, search a list of rows)
DumpsResult(tool, value) == tool = "list" \/ \A i \in 1..Len(value) : JsonDumps(value[i])

\* the tool has ended: its result is dumped and returned, its exception is caught
HttpToolDone ==
  /\ http.pc = "tool" /\ th[1].pc = "done"
  /\ LET result == th[1].result
     IN  HttpFinish(http.request, result,
                    IF Raised(result) THEN ContentError("Error calling tool: " \o result.msg)
                    ELSE IF ~DumpsResult(th[1].tool, result.value)
                      THEN ContentError("Error calling tool: Object is not JSON serializable")
                    ELSE Content(result.value))
  /\ th' = [th EXCEPT ![1] = Idle]
  /\ UNCHANGED <<googleads_client, constructed, ic, relay>>

\* the caller takes the response
HttpReturn ==
  /\ http.pc = "done"
  /\ http' = HttpIdle
  /\ UNCHANGED <<googleads_client, constructed, th, ic, relay>>

\* process_mcp_request(request)
HttpReceive(r) ==
  \/ HttpStatic(r)
  \/ HttpUnknownMethod(r)
  \/ HttpParamsFail(r)
  \/ HttpUnknownTool(r)
  \/ HttpBindFails(r)
  \/ HttpCallSearch(r)
  \/ HttpCallList(r)

\* one call at a time, any search arguments, a short stream
Next ==
  \/ \E a \in WideArgs : CallSearch(1, a)
  \/ CallList(1)
  \/ Step(1, OneBatch)

Spec == Init /\ [][Next]_vars

\* one call at a time, few search arguments, any stream
NextNorm ==
  \/ \E a \in FewArgs : CallSearch(1, a)
  \/ CallList(1)
  \/ Step(1, AllBatches)

SpecNorm == Init /\ [][NextNorm]_vars

\* calls on every thread, interleaved at every step
NextConc ==
  \E t \in Threads :
    \/ \E a \in FewArgs : CallSearch(t, a)
    \/ CallList(t)
    \/ Step(t, OneBatch)

SpecConc == Init /\ [][NextConc]_vars

\* one call at a time, a free-text query of the documented form, a short stream
NextParse ==
  \/ \E a \in FormedArgs : CallSearch(1, a)
  \/ CallList(1)
  \/ Step(1, OneBatch)

SpecParse == Init /\ [][NextParse]_vars

(***************************************************************************)
(* MCPHeaderInterceptor._mcp_intercept.  ic is the intercepted call: its   *)
(* position, the metadata of client_call_details, the rewritten metadata,  *)
(* the metadata of every invocation of the continuation in order, and how  *)
(* the call ended.                                                         *)
(***************************************************************************)
API_CLIENT_HEADER == "x-goog-api-client"
MCP_EXTRA_HEADER == " google-ads-mcp/unknown"

\* a bytes value, as the values of "-bin" keys are
PyBytes(s) == [kind |-> "bytes", s |-> s]

\* Python's `sub in s` on two str
Within(sub, s) == \E i \in 1..(Len(s) - Len(sub) + 1) : SubSeq(s, i, i + Len(sub) - 1) = sub

MetadataKeys == {PyStr(API_CLIENT_HEADER), PyStr("authorization")}
MetadataValues == {PyStr("gl-python/3.11"), PyStr("gl-python/3.11 google-ads-mcp/1.0"), PyBytes("gl")}
Metadatum == {<<k, v>> : k \in MetadataKeys, v \in MetadataValues}

\* client_call_details.metadata: None, or a tuple of up to two metadatums, or one empty metadatum
Metadatas ==
  {None, PyTuple(<<>>, ""), PyTuple(<< <<>> >>, "")}
  \cup {PyTuple(<<m>>, "") : m \in Metadatum}
  \cup {PyTuple(<<m, n>>, "") : m \in Metadatum, n \in Metadatum}

InterceptKinds == {"unary_unary", "unary_stream"}

\* the for loop from position i on: the list after the splice, or the exception raised
RECURSIVE Spliced(_, _)
Spliced(metadata, i) ==
  IF i > Len(metadata) THEN PyList(metadata, "")
  ELSE IF Len(metadata[i]) = 0 THEN Raise("IndexError", "tuple index out of range")
  ELSE IF metadata[i][1] # PyStr(API_CLIENT_HEADER) THEN Spliced(metadata, i + 1)
  ELSE IF metadata[i][2].kind # "str" THEN Raise("TypeError", "a bytes-like object is required, not 'str'")
  ELSE IF Within("google-ads-mcp", metadata[i][2].s) THEN Spliced(metadata, i + 1)
  ELSE PyList([metadata EXCEPT ![i] = [@ EXCEPT ![2] = PyStr(@.s \o MCP_EXTRA_HEADER)]], "")

\* the metadata built in the try block
NewMetadata(md) == IF md = None THEN Spliced(<<>>, 1) ELSE Spliced(md.items, 1)

\* intercept_unary_unary / intercept_unary_stream enter _mcp_intercept
IcCall(kind, md) ==
  /\ ic.pc = "idle"
  /\ ic' = [IcIdle EXCEPT !.pc = "try", !.kind = kind, !.metadata = md]
  /\ UNCHANGED <<googleads_client, constructed, th, http, relay>>

\* the try block up to _replace: the metadata is rewritten, or an exception is raised
IcRewrite ==
  /\ ic.pc = "try"
  /\ ic' = IF Raised(NewMetadata(ic.metadata))
             THEN [ic EXCEPT !.pc = "except"]
             ELSE [ic EXCEPT !.pc = "continue", !.new_metadata = NewMetadata(ic.metadata)]
  /\ UNCHANGED <<googleads_client, constructed, th, http, relay>>

\* return continuation(new_client_call_details, request), inside the try
IcContinue ==
  /\ ic.pc = "continue"
  /\ \E raises \in BOOLEAN :
       ic' = IF raises
               THEN [ic EXCEPT !.pc = "except", !.passed = Append(@, ic.new_metadata)]
               ELSE [ic EXCEPT !.pc = "done", !.passed = Append(@, ic.new_metadata),
                               !.outcome = Returned(ic.new_metadata)]
  /\ UNCHANGED <<googleads_client, constructed, th, http, relay>>

\* the bare except: return continuation(client_call_details, request)
IcExcept ==
  /\ ic.pc = "except"
  /\ \E raises \in BOOLEAN :
       ic' = [ic EXCEPT !.pc = "done", !.passed = Append(@, ic.metadata),
                        !.outcome = IF raises THEN Raise("RpcError", "continuation failed")
                                    ELSE Returned(ic.metadata)]
  /\ UNCHANGED <<googleads_client, constructed, th, http, relay>>

\* the intercepted call is over
IcReturn ==
  /\ ic.pc = "done"
  /\ ic' = IcIdle
  /\ UNCHANGED <<googleads_client, constructed, th, http, relay>>

NextIntercept ==
  \/ \E kind \in InterceptKinds, md \in Metadatas : IcCall(kind, md)
  \/ IcRewrite
  \/ IcContinue
  \/ IcExcept
  \/ IcReturn

SpecIntercept == Init /\ [][NextIntercept]_vars

(***************************************************************************)
(* The loop of mcp_http_wrapper.main.  relay is the loop: its position,    *)
(* the input lines read so far, the local `request` (unbound until the     *)
(* first json.loads succeeds) and the response lines written to stdout,    *)
(* each with the number of the input line during which it was written.     *)
(***************************************************************************)
MaxLines == 3

\* an input line: blank, not JSON, not UTF-8, a JSON array, a JSON object with its "id"
Line(kind, id) == [kind |-> kind, id |-> id]
RelayLines ==
  {Line(k, None) : k \in {"blank", "badjson", "undecodable", "array"}}
  \cup {Line("object", i) : i \in {None, PyInt(1), PyInt(2)}}

\* what becomes of the forwarded request: client.post raises, the body is not JSON, or
\* server_response has "jsonrpc" (the server echoes the id), has "error", is any other
\* mapping, or is a number
Outcomes == {"post_raises", "bad_body", "jsonrpc", "error", "result", "scalar"}

\* request.get("id")
IdOf(request) ==
  IF request.kind = "object" THEN request.id
  ELSE Raise("AttributeError", "'list' object has no attribute 'get'")

\* request.get("id") if 'request' in locals() else None
HandlerId(request) == IF request.kind = "unbound" THEN None ELSE IdOf(request)

\* a response line written while input line k was handled
Written(k, id) == [line |-> k, id |-> id]

\* the line being read
ThisLine == Len(relay.lines) + 1

\* `except Exception`: the error response is written, or request.get raises in the handler
\* and the exception leaves the loop
Handler(line, request) ==
  IF Raised(HandlerId(request))
    THEN [relay EXCEPT !.pc = "crashed", !.lines = Append(@, line), !.request = request]
    ELSE [relay EXCEPT !.lines = Append(@, line), !.request = request,
                       !.out = Append(@, Written(ThisLine, HandlerId(request)))]

\* readline returns b"": break
RelayEof ==
  /\ relay.pc = "loop"
  /\ relay' = [relay EXCEPT !.pc = "ended"]
  /\ UNCHANGED <<googleads_client, constructed, th, http, ic>>

\* a blank line (continue), or a line json.loads rejects (except json.JSONDecodeError: continue)
RelaySkip(line) ==
  /\ relay.pc = "loop" /\ Len(relay.lines) < MaxLines
  /\ line.kind \in {"blank", "badjson"}
  /\ relay' = [relay EXCEPT !.lines = Append(@, line)]
  /\ UNCHANGED <<googleads_client, constructed, th, http, ic>>

\* line.decode('utf-8') raises UnicodeDecodeError: except Exception, `request` not reassigned
RelayDecodeFails(line) ==
  /\ relay.pc = "loop" /\ Len(relay.lines) < MaxLines
  /\ line.kind = "undecodable"
  /\ relay' = Handler(line, relay.request)
  /\ UNCHANGED <<googleads_client, constructed, th, http, ic>>

\* request = json.loads(line_str) and the request is forwarded: the response is written
\* from the try block
RelayAnswer(line, outcome) ==
  /\ relay.pc = "loop" /\ Len(relay.lines) < MaxLines
  /\ line.kind \in {"array", "object"}
  /\ outcome \in {"jsonrpc", "error", "result"}
  /\ outcome = "jsonrpc" \/ ~Raised(IdOf(line))
  /\ relay' = [relay EXCEPT !.lines = Append(@, line), !.request = line,
                            !.out = Append(@, Written(ThisLine, line.id))]
  /\ UNCHANGED <<googleads_client, constructed, th, http, ic>>

\* response.json() raises json.JSONDecodeError: continue, nothing is written
RelayBadBody(line, outcome) ==
  /\ relay.pc = "loop" /\ Len(relay.lines) < MaxLines
  /\ line.kind \in {"array", "object"}
  /\ outcome = "bad_body"
  /\ relay' = [relay EXCEPT !.lines = Append(@, line), !.request = line]
  /\ UNCHANGED <<googleads_client, constructed, th, http, ic>>

\* the forwarding raises after `request` is assigned (client.post, `in` on a number,
\* request.get on a list): except Exception
RelayForwardFails(line, outcome) ==
  /\ relay.pc = "loop" /\ Len(relay.lines) < MaxLines
  /\ line.kind \in {"array", "object"}
  /\ \/ outcome \in {"post_raises", "scalar"}
     \/ outcome \in {"error", "result"} /\ Raised(IdOf(line))
  /\ relay' = Handler(line, line)
  /\ UNCHANGED <<googleads_client, constructed, th, http, ic>>

\* one input line
RelayLine(line, outcome) ==
  \/ RelaySkip(line)
  \/ RelayDecodeFails(line)
  \/ RelayAnswer(line, outcome)
  \/ RelayBadBody(line, outcome)
  \/ RelayForwardFails(line, outcome)

NextRelay ==
  \/ RelayEof
  \/ \E line \in RelayLines, outcome \in Outcomes : RelayLine(line, outcome)

SpecRelay == Init /\ [][NextRelay]_vars

\* one request at a time through process_mcp_request, a short stream
NextHttp ==
  \/ \E r \in Requests : HttpReceive(r)
  \/ Run(1, OneBatch)
  \/ HttpToolDone
  \/ HttpReturn

SpecHttp == Init /\ [][NextHttp]_vars

(***************************************************************************)
(* Properties.                                                             *)
(***************************************************************************)
\* a call of search on thread t that has gone past the given positions
SearchPast(t, pcs) == th[t].tool = "search" /\ th[t].pc \notin ({"idle"} \cup pcs)

\* keyword + the strings joined by sep, when there are any
Clause(keyword, list, sep) ==
  IF list.kind = "list" /\ Len(list.items) > 0 THEN keyword \o Join(Strings(list), sep) ELSE ""

\* the canonical query of the fields, resource, conditions, orderings and limit of l
Canonical(l) ==
  "SELECT " \o Join(Strings(l.fields), ",") \o " FROM " \o l.resource.s
    \o Clause(" WHERE ", l.conditions, " AND ")
    \o Clause(" ORDER BY ", l.orderings, ",")
    \o (IF l.limit.kind = "int" THEN " LIMIT " \o IntStr(l.limit.n) ELSE "")

\* C1: the query sent to the backend is SELECT fields FROM resource, then WHERE, ORDER BY
\* and LIMIT for the conditions, orderings and limit that are present, in that order, and
\* nothing for an absent one; a limit is present when the caller or the text gave one.
C1_SentQueryIsCanonical ==
  \A t \in Threads :
    (th[t].tool = "search" /\ Len(th[t].sent) > 0) =>
      th[t].sent[1][2].s = Canonical(th[t].locals)

\* C2: once the query text is parsed, every conditions, orderings or limit argument the
\* caller supplied (anything but None) is the value the query is built from.
C2_ExplicitTakesPrecedence ==
  \A t \in Threads :
    (SearchPast(t, {"parse"}) /\ th[t].args.query.kind = "str" /\ ~Raised(th[t].result)) =>
      /\ th[t].args.conditions # None => th[t].locals.conditions = th[t].args.conditions
      /\ th[t].args.orderings # None => th[t].locals.orderings = th[t].args.orderings
      /\ th[t].args.limit # None => th[t].locals.limit = th[t].args.limit

EndsWith(s, suffix) ==
  Len(s) >= Len(suffix) /\ SubSeq(s, Len(s) - Len(suffix) + 1, Len(s)) = suffix

\* C3: a call with limit=0 sends a query that ends with " LIMIT 0".
C3_ExplicitZeroLimitEmitted ==
  \A t \in Threads :
    (th[t].tool = "search" /\ Len(th[t].sent) > 0 /\ th[t].args.limit = PyInt(0)) =>
      EndsWith(th[t].sent[1][2].s, " LIMIT 0")

\* an enum member is left somewhere in a converted object
RECURSIVE HasEnum(_)
HasEnum(obj) ==
  CASE obj.kind = "enum" -> TRUE
    [] obj.kind \in {"list", "tuple"} -> \E i \in 1..Len(obj.items) : HasEnum(obj.items[i])
    [] obj.kind = "dict" -> \E i \in 1..Len(obj.items) : HasEnum(obj.items[i][2])
    [] OTHER -> FALSE

\* C4: no record search has built holds an enum member, at the top of a field or nested
\* in a list or a dict: each has become its name, a str.
C4_EnumsBecomeNames ==
  \A t \in Threads :
    \A i \in 1..Len(th[t].final_output) : ~HasEnum(th[t].final_output[i])

\* C5: the client is constructed at most once, whatever the calls and their interleaving.
C5_SingleConstruction == constructed <= 1

\* the rows the stream has delivered, each with the field mask of its batch, in order
RowsOf(b) == [j \in 1..Len(b.results) |-> [paths |-> b.paths, row |-> b.results[j]]]

RECURSIVE DeliveredRows(_)
DeliveredRows(bs) ==
  IF Len(bs) = 0 THEN <<>>
  ELSE DeliveredRows(SubSeq(bs, 1, Len(bs) - 1)) \o RowsOf(bs[Len(bs)])

\* a sequence without the repetitions of its elements
RECURSIVE Dedup(_)
Dedup(seq) ==
  IF Len(seq) = 0 THEN <<>>
  ELSE LET before == Dedup(SubSeq(seq, 1, Len(seq) - 1))
           last == seq[Len(seq)]
       IN  IF \E i \in 1..Len(before) : before[i] = last THEN before ELSE Append(before, last)

\* the keys of a record, in order, and the value of one key
Keys(record) == [i \in 1..Len(record.items) |-> record.items[i][1].s]
Missing == [kind |-> "missing"]
Lookup(record, key) ==
  IF \E i \in 1..Len(record.items) : record.items[i][1] = PyStr(key)
    THEN record.items[CHOOSE i \in 1..Len(record.items) : record.items[i][1] = PyStr(key)][2]
    ELSE Missing

\* the whole-record check of format_output_row passes for this row and mask
CheckPasses(row, paths) == JsonDumps(PyDict(FormatFields(row, paths, Len(paths)), ""))

\* C6: every record search has built has one entry per path of its batch's field mask, its
\* keys in the mask's order, on the per-field path and on the fallback path alike.
C6_OneEntryPerPath ==
  \A t \in Threads :
    th[t].tool = "search" =>
      \A i \in 1..Len(th[t].final_output) :
        Keys(th[t].final_output[i]) = Dedup(DeliveredRows(th[t].delivered)[i].paths)

\* a fallback record and a per-field record, both of masks of several paths, have been built
C6_Witness ==
  \E t \in Threads :
    /\ th[t].tool = "search"
    /\ \E i, j \in 1..Len(th[t].final_output) :
         LET d == DeliveredRows(th[t].delivered)
         IN  /\ ~CheckPasses(d[i].row, d[i].paths)
             /\ CheckPasses(d[j].row, d[j].paths)
             /\ Len(d[i].paths) >= 2
             /\ Len(Dedup(d[j].paths)) < Len(d[j].paths)

Without(paths, p) == SelectSeq(paths, LAMBDA q : q # p)

\* in the record of row, the failing path p holds the error string and every other path
\* holds what it holds in the record of the mask without p
FailingPathIsolated(record, row, paths, p) ==
  /\ Lookup(record, p) = PyStr("Error: " \o get_nested_attr(row, p).msg)
  /\ \A k \in 1..Len(paths) :
       paths[k] # p => Lookup(record, paths[k]) = Lookup(format_output_row(row, Without(paths, p)), paths[k])

\* format_output_row has raised on the row the call was formatting
FormatRaised(t) ==
  /\ th[t].tool = "search" /\ th[t].pc = "done" /\ Raised(th[t].result)
  /\ th[t].row \in 1..Len(th[t].batch.results)

ResolutionFails(row, paths) == \E k \in 1..Len(paths) : Raised(get_nested_attr(row, paths[k]))

\* C7 as claimed: for every row with a path whose resolution raises, format_output_row
\* does not raise, the path holds "Error: " and the description, and the other paths hold
\* what they would hold without it.
C7_FailingPathIsolated ==
  \A t \in Threads :
    th[t].tool = "search" =>
      /\ \A i \in 1..Len(th[t].final_output) :
           LET d == DeliveredRows(th[t].delivered)[i]
           IN  \A k \in 1..Len(d.paths) :
                 Raised(get_nested_attr(d.row, d.paths[k])) =>
                   FailingPathIsolated(th[t].final_output[i], d.row, d.paths, d.paths[k])
      /\ ~(FormatRaised(t) /\ ResolutionFails(th[t].batch.results[th[t].row], th[t].batch.paths))

\* C7 as amended: the same, for the rows whose whole-record serialization check passes.
C7_FailingPathIsolatedWhenCheckPasses ==
  \A t \in Threads :
    th[t].tool = "search" =>
      /\ \A i \in 1..Len(th[t].final_output) :
           LET d == DeliveredRows(th[t].delivered)[i]
           IN  \A k \in 1..Len(d.paths) :
                 (Raised(get_nested_attr(d.row, d.paths[k])) /\ CheckPasses(d.row, d.paths)) =>
                   FailingPathIsolated(th[t].final_output[i], d.row, d.paths, d.paths[k])
      /\ ~(/\ FormatRaised(t)
           /\ ResolutionFails(th[t].batch.results[th[t].row], th[t].batch.paths)
           /\ CheckPasses(th[t].batch.results[th[t].row], th[t].batch.paths))

\* a record has been built for a row with a failing path, a resolving path and a passing check
C7_Witness ==
  \E t \in Threads :
    /\ th[t].tool = "search"
    /\ \E i \in 1..Len(th[t].final_output) :
         LET d == DeliveredRows(th[t].delivered)[i]
         IN  /\ CheckPasses(d.row, d.paths)
             /\ \E k, m \in 1..Len(d.paths) :
                  /\ Raised(get_nested_attr(d.row, d.paths[k]))
                  /\ ~Raised(get_nested_attr(d.row, d.paths[m]))

\* the text holds SELECT, whitespace, at least one character, whitespace, FROM, whitespace
\* and a word character, in that order, whatever the case of the keywords
ContainsSelectFrom(q) ==
  LET u == Upper(q)
  IN  \E i, f \in 1..Len(q) :
        /\ At(u, i, "SELECT") /\ At(u, f, "FROM")
        /\ f >= i + 9
        /\ IsSpace(CharAt(q, i + 6)) /\ IsSpace(CharAt(q, f - 1))
        /\ \E w \in (f + 5)..Len(q) :
             /\ IsWord(CharAt(q, w))
             /\ \A k \in (f + 4)..(w - 1) : IsSpace(CharAt(q, k))

NoSelectFrom == {q \in QueryTexts : ~ContainsSelectFrom(q)}

\* the call on thread t has failed for its query, with no client built and nothing sent
FailedAsInvalidQuery(t) ==
  /\ th[t].pc = "done" /\ th[t].result = InvalidQuery
  /\ th[t].built = 0 /\ th[t].sent = <<>>

\* C8 as claimed: a call whose query text holds no SELECT ... FROM clause fails as an
\* invalid query: no fallback to the explicit arguments, no client built, nothing sent.
C8_NoSelectFromFails ==
  \A t \in Threads :
    (SearchPast(t, {"parse"}) /\ th[t].args.query.kind = "str" /\ th[t].args.query.s \in NoSelectFrom) =>
      FailedAsInvalidQuery(t)

\* C8 as amended: the same, for a query text that is not the empty string.
C8_NonEmptyNoSelectFromFails ==
  \A t \in Threads :
    (/\ SearchPast(t, {"parse"}) /\ th[t].args.query.kind = "str"
     /\ th[t].args.query.s # "" /\ th[t].args.query.s \in NoSelectFrom) =>
      FailedAsInvalidQuery(t)

\* a call with explicit fields and resource has failed for its query text
C8_Witness ==
  \E t \in Threads :
    /\ FailedAsInvalidQuery(t)
    /\ th[t].args.query.s # ""
    /\ th[t].args.fields.kind = "list" /\ Len(th[t].args.fields.items) > 0
    /\ th[t].args.resource = PyStr("campaign")

IsEmpty(o) == o = None \/ o = PyStr("") \/ (o.kind = "list" /\ Len(o.items) = 0)

\* C9: a call whose fields or resource is empty once the query text is parsed fails with
\* the validation error, with no client built and nothing sent to the backend.
C9_MissingFieldsFailBeforeBackend ==
  \A t \in Threads :
    (/\ SearchPast(t, {"parse", "validate"}) /\ th[t].result # InvalidQuery
     /\ (IsEmpty(th[t].locals.fields) \/ IsEmpty(th[t].locals.resource))) =>
      /\ th[t].pc = "done" /\ th[t].result = MissingRequired
      /\ th[t].built = 0 /\ th[t].sent = <<>>

\* a call with fields and without a resource has failed the validation
C9_Witness ==
  \E t \in Threads :
    /\ th[t].pc = "done" /\ th[t].result = MissingRequired
    /\ ~IsEmpty(th[t].args.fields) /\ IsEmpty(th[t].args.resource)
    /\ th[t].built = 0 /\ th[t].sent = <<>>

\* C10: the records of search are those of the delivered rows, one per row, in delivery
\* order, each built from the field mask of the batch that carried the row; the list
\* search returns holds them all.
C10_OneRecordPerRowInOrder ==
  \A t \in Threads :
    th[t].tool = "search" =>
      LET d == DeliveredRows(th[t].delivered)
      IN  /\ Len(th[t].final_output) <= Len(d)
          /\ \A i \in 1..Len(th[t].final_output) :
               th[t].final_output[i] = format_output_row(d[i].row, d[i].paths)
          /\ (th[t].pc = "done" /\ th[t].result.kind = "return") =>
               (th[t].result.value = th[t].final_output /\ Len(th[t].final_output) = Len(d))

\* search has returned the records of two batches of different masks
C10_Witness ==
  \E t \in Threads :
    /\ th[t].tool = "search" /\ th[t].pc = "done" /\ th[t].result.kind = "return"
    /\ Len(th[t].delivered) = 2
    /\ th[t].delivered[1].paths # th[t].delivered[2].paths
    /\ Len(th[t].delivered[1].results) >= 2 /\ Len(th[t].delivered[2].results) >= 1
    /\ Len(th[t].result.value) = Len(th[t].delivered[1].results) + Len(th[t].delivered[2].results)

\* list, tuple or backend repeated container
IsSequence(o) == o.kind \in {"list", "tuple", "repeated"}

\* out is a sequence of the normalized elements of v, in order
SequenceKept(v, out) ==
  /\ out.kind = "list" /\ Len(out.items) = Len(v.items)
  /\ \A i \in 1..Len(v.items) : out.items[i] = _ensure_serializable(v.items[i])

\* out is a mapping of the keys of v to the normalized values
MappingKept(v, out) ==
  /\ out.kind = "dict" /\ Len(out.items) = Len(v.items)
  /\ \A i \in 1..Len(v.items) :
       /\ out.items[i][1] = v.items[i][1]
       /\ out.items[i][2] = _ensure_serializable(v.items[i][2])

\* C11: in every record built on the per-field path, a path that resolves to a sequence
\* (a list, a tuple or a backend repeated field) holds the sequence of the normalized
\* elements, and a path that resolves to a mapping holds the mapping of the same keys to
\* the normalized values; neither holds a single string.
C11_CollectionsKeptElementwise ==
  \A t \in Threads :
    th[t].tool = "search" =>
      \A i \in 1..Len(th[t].final_output) :
        LET d == DeliveredRows(th[t].delivered)[i]
        IN  CheckPasses(d.row, d.paths) =>
              \A k \in 1..Len(d.paths) :
                LET v == get_nested_attr(d.row, d.paths[k])
                    out == Lookup(th[t].final_output[i], d.paths[k])
                IN  /\ IsSequence(v) => SequenceKept(v, out)
                    /\ v.kind = "dict" => MappingKept(v, out)

\* the string the fallback is to hold for a path: the rendering of the row attribute its
\* first segment names, "N/A" when the row has no such attribute
TopText(row, path) ==
  LET top == GetAttr(row, Split(path, ".")[1])
  IN  IF Raised(top) THEN PyStr("N/A")
      ELSE IF top.kind = "broken" THEN PyStr("N/A")
      ELSE StrOf(top)

\* the records built for rows whose whole-record check fails hold the fallback strings
FallbackValuesHold(t) ==
  \A i \in 1..Len(th[t].final_output) :
    LET d == DeliveredRows(th[t].delivered)[i]
    IN  ~CheckPasses(d.row, d.paths) =>
          \A k \in 1..Len(d.paths) :
            Lookup(th[t].final_output[i], d.paths[k]) = TopText(d.row, d.paths[k])

\* format_output_row has raised on a row whose whole-record check fails
FallbackRaised(t) ==
  /\ FormatRaised(t)
  /\ ~CheckPasses(th[t].batch.results[th[t].row], th[t].batch.paths)

\* C12: when the whole-record check fails, the record maps every path to the rendering of
\* the row attribute its first segment names, or to "N/A" when that cannot be obtained,
\* and format_output_row returns the record instead of raising.
C12_FallbackRecordReturned ==
  \A t \in Threads :
    th[t].tool = "search" => (FallbackValuesHold(t) /\ ~FallbackRaised(t))

\* the canonical query of the parts of a free-text query
CanonicalOfParts(f) ==
  "SELECT " \o Join(f.fields, ",") \o " FROM " \o f.resource
    \o (IF f.where = "" THEN "" ELSE " WHERE " \o f.where)
    \o (IF f.order = "" THEN "" ELSE " ORDER BY " \o f.order)
    \o (IF f.limit.digits = "" THEN "" ELSE " LIMIT " \o ToString(f.limit.n))

\* C13: a call of search with a free-text query of the documented form and no explicit
\* argument does not fail on the query, and every query it sends is the canonical query of
\* the fields, resource, predicate, ordering and limit the text is written from.
C13_FormedQueryBuildsCanonical ==
  \A t \in Threads :
    \A f \in FormedQueries :
      (SearchPast(t, {"parse"}) /\ th[t].args = [NoArgs EXCEPT !.customer_id = th[t].args.customer_id,
                                                              !.query = PyStr(f.text)]) =>
        /\ th[t].result \notin {InvalidQuery, MissingRequired}
        /\ \A k \in 1..Len(th[t].sent) : th[t].sent[k][2] = PyStr(CanonicalOfParts(f.parts))

\* C14: the list list_accessible_customers returns has one string per resource name of
\* the backend, in the same order: the name without its leading "customers/", the name
\* itself when it does not start with "customers/".
C14_CustomerIdsStripped ==
  \A t \in Threads :
    (th[t].tool = "list" /\ th[t].pc = "done" /\ th[t].result.kind = "return") =>
      LET names == th[t].delivered[1]
          ids == th[t].result.value
      IN  /\ Len(ids) = Len(names)
          /\ \A i \in 1..Len(names) :
               IF Len(names[i]) >= 10 /\ SubSeq(names[i], 1, 10) = "customers/"
                 THEN "customers/" \o ids[i] = names[i]
                 ELSE ids[i] = names[i]

\* a listing of several names, with and without the prefix, has been returned
C14_Witness ==
  \E t \in Threads :
    /\ th[t].tool = "list" /\ th[t].pc = "done" /\ th[t].result.kind = "return"
    /\ th[t].delivered[1] = <<"customers/9", "77", "customers/">>
    /\ th[t].result.value = <<"9", "77", "">>

BackendFailure == Raise("GoogleAdsException", "backend failure")

UnknownToolOrMethod(r) ==
  \/ MethodOf(r) \notin {PyStr("tools/list"), PyStr("tools/call"), PyStr("initialize")}
  \/ /\ MethodOf(r) = PyStr("tools/call")
     /\ (r.params.kind # "object"
          \/ Get(r.params.name) \notin {PyStr("list_accessible_customers"), PyStr("search")})

\* the response is an error object marked isError that carries a message
IsErrorObject(response) ==
  /\ "isError" \in DOMAIN response /\ response.isError
  /\ \/ ("error" \in DOMAIN response /\ response.error # "")
     \/ ("text" \in DOMAIN response /\ response.text # "")

\* C16: no exception leaves process_mcp_request, and a request whose tool failed, or that
\* names an unknown tool or an unknown method, is answered by an error object marked
\* isError with a message.
C16_FailuresBecomeErrorObjects ==
  http.pc = "done" =>
    /\ ~Raised(http.response)
    /\ (Raised(http.outcome) \/ UnknownToolOrMethod(http.request)) => IsErrorObject(http.response)

\* C17: every intercepted call, unary-unary or unary-stream, invokes the continuation
\* exactly once, whatever the metadata is and whether or not the continuation raises.
C17_ContinuationInvokedOnce ==
  /\ Len(ic.passed) <= 1
  /\ ic.pc = "done" => Len(ic.passed) = 1

\* the id of the request input line k yielded: None when it yielded no parsed request
RequestId(k) == IF relay.lines[k].kind = "object" THEN relay.lines[k].id ELSE None

\* C18: every response line written to stdout carries the id of the request of the input
\* line during which it was written, or null when that line yielded no parsed request;
\* never the id of an earlier line's request.
C18_ResponseCarriesIdOfItsLine ==
  \A i \in 1..Len(relay.out) : relay.out[i].id = RequestId(relay.out[i].line)

\* the query texts with SELECT ... FROM, each with the fields and the resource written in it
SelectFromTexts ==
  { [text |-> "SELECT campaign.id FROM campaign", fields |-> <<"campaign.id">>, resource |-> "campaign"],
    [text |-> "select a, b from campaign where x > 1 order by a limit 5",
     fields |-> <<"a", "b">>, resource |-> "campaign"],
    [text |-> " Select  a ,b  From ad_group  Where y = 2  Limit 07 ",
     fields |-> <<"a", "b">>, resource |-> "ad_group"],
    [text |-> "SELECT a FROM c ORDER BY b DESC", fields |-> <<"a">>, resource |-> "c"] }

\* s begins with prefix
StartsWith(s, prefix) == Len(s) >= Len(prefix) /\ SubSeq(s, 1, Len(prefix)) = prefix

\* C19: a call of search with a query text that has SELECT ... FROM and with explicit
\* fields and resource goes on with the fields and the resource of the text, whatever the
\* explicit ones are: every query it sends selects the fields of the text from the
\* resource of the text, and does not hold the caller's field list.
C19_ParsedFieldsReplaceExplicit ==
  \A t \in Threads :
    \A q \in SelectFromTexts :
      (/\ SearchPast(t, {"parse"}) /\ th[t].args.query = PyStr(q.text)
       /\ th[t].args.fields # None /\ th[t].args.resource # None) =>
        /\ th[t].result # InvalidQuery
        /\ th[t].locals.fields = StrList(q.fields)
        /\ th[t].locals.resource = PyStr(q.resource)
        /\ \A i \in 1..Len(th[t].sent) :
             /\ StartsWith(th[t].sent[i][2].s,
                           "SELECT " \o Join(q.fields, ",") \o " FROM " \o q.resource)
             /\ Len(th[t].args.fields.items) > 0 =>
                  ~Within(Join(Strings(th[t].args.fields), ","), th[t].sent[i][2].s)

\* a query has been sent for a call whose explicit fields and resource differ from those
\* of its query text
C19_Witness ==
  \E t \in Threads :
    /\ th[t].tool = "search" /\ Len(th[t].sent) > 0
    /\ th[t].args.query = PyStr(" Select  a ,b  From ad_group  Where y = 2  Limit 07 ")
    /\ th[t].args.fields = StrList(<<"campaign.id", "campaign.name">>)
    /\ th[t].args.resource = PyStr("campaign")
    /\ StartsWith(th[t].sent[1][2].s, "SELECT a,b FROM ad_group")

====
